---- MODULE Spec2Model ----
(***************************************************************************)
(* PBS Admin (src-tauri/src/lib.rs): the path validation in front of the   *)
(* file commands, and the database backup / restore commands.              *)
(*                                                                         *)
(* A path is a sequence of components below the filesystem root, so <<>>   *)
(* is "/" and <<"docs", "PBS_Admin">> is /docs/PBS_Admin.  A component     *)
(* ".." is kept as written until the path is canonicalized.                *)
(***************************************************************************)
EXTENDS Integers, Sequences, FiniteSets, TLC

VARIABLES
    fs,       \* the filesystem: existing path |-> entry (dir, file, symlink)
    docDir,   \* what dirs::document_dir() returns (<<>> models None)
    tempDir,  \* what std::env::temp_dir() returns
    clock,    \* chrono::Local::now(), to second resolution
    last,     \* the last command: its name, argument and result
    io,       \* the file I/O the last command performed: what, at which
              \* location, and whether at the path the caller passed (arg)
    made      \* history: <<artifact path, database content>> of each create

vars == <<fs, docDir, tempDir, clock, last, io, made>>

(***************************************************************************)
(* Bounds of the model.                                                    *)
(***************************************************************************)
\* the most ".." components in a caller-supplied path
MaxDots == 2
\* the symlinks one resolution may follow
MaxLinkHops == 2
\* distinct database contents the database engine writes
NumContents == 2
\* seconds the wall clock runs through
MaxClock == 2

Contents == 1..NumContents

(***************************************************************************)
(* Filesystem entries.  A file holds `data`; Torn is a file that a failed   *)
(* or self-overwriting copy left truncated or partially written.           *)
(***************************************************************************)
Dir == [kind |-> "dir", data |-> 0, whole |-> TRUE, target |-> <<>>]
File(c) == [kind |-> "file", data |-> c, whole |-> TRUE, target |-> <<>>]
Torn == [kind |-> "file", data |-> 0, whole |-> FALSE, target |-> <<>>]
Link(t) == [kind |-> "link", data |-> 0, whole |-> TRUE, target |-> t]

Put(f, p, e) == [q \in (DOMAIN f) \cup {p} |-> IF q = p THEN e ELSE f[q]]
Remove(f, p) == [q \in (DOMAIN f) \ {p} |-> f[q]]

(***************************************************************************)
(* std::path::Path, by components.                                         *)
(***************************************************************************)
\* Path::parent(): None for the root, else the path without its last component
has_parent(p) == p # <<>>
parent(p) == SubSeq(p, 1, Len(p) - 1)

\* Path::file_name(): None for the root and for a path that ends in ".."
has_file_name(p) == p # <<>> /\ p[Len(p)] # ".."
file_name(p) == p[Len(p)]

\* Path::join with one relative component
join(p, name) == Append(p, name)

\* Path::starts_with: a prefix test on whole components
starts_with(p, base) ==
    /\ Len(base) <= Len(p)
    /\ SubSeq(p, 1, Len(base)) = base

(***************************************************************************)
(* Results: Ok(path) or Err(kind).                                         *)
(***************************************************************************)
Ok(p) == [ok |-> TRUE, path |-> p, err |-> "none"]
Err(e) == [ok |-> FALSE, path |-> <<>>, err |-> e]

(***************************************************************************)
(* Path::canonicalize on filesystem f: components are resolved left to     *)
(* right from the root; ".." steps to the parent of the directory reached  *)
(* so far, a symlink is replaced by its (absolute) target, and every       *)
(* component must exist.  The result holds no ".." and no symlink.         *)
(***************************************************************************)
RECURSIVE Walk(_, _, _, _)
Walk(f, cur, rest, fuel) ==
    IF rest = <<>> THEN Ok(cur)
    ELSE LET c == Head(rest)
             t == Tail(rest)
             next == Append(cur, c)
         IN  IF c = ".." THEN Walk(f, IF cur = <<>> THEN cur ELSE parent(cur), t, fuel)
             ELSE IF next \notin DOMAIN f THEN Err("NotFound")
             ELSE IF f[next].kind = "dir" THEN Walk(f, next, t, fuel)
             ELSE IF f[next].kind = "file"
                  THEN IF t = <<>> THEN Ok(next) ELSE Err("NotADirectory")
             ELSE IF fuel = 0 THEN Err("TooManyLinks")
             ELSE Walk(f, <<>>, f[next].target \o t, fuel - 1)

canonicalize(f, p) == Walk(f, <<>>, p, MaxLinkHops)

\* Path::exists / is_dir / is_file follow symlinks
exists(f, p) == canonicalize(f, p).ok
is_dir(f, p) == canonicalize(f, p).ok /\ f[canonicalize(f, p).path].kind = "dir"
is_file(f, p) == canonicalize(f, p).ok /\ f[canonicalize(f, p).path].kind = "file"

(***************************************************************************)
(* The path validation (lib.rs 14-79).                                     *)
(***************************************************************************)
get_pbs_admin_base_path ==
    IF docDir = <<>> THEN Err("NoDocumentsFolder")
    ELSE Ok(join(docDir, "PBS_Admin"))

\* lines 28-43: the canonical path, or for a path that does not resolve the
\* canonical parent joined with the file name
candidate_path(f, path) ==
    LET direct == canonicalize(f, path)
        cparent == canonicalize(f, parent(path))
    IN  IF direct.ok THEN direct
        ELSE IF ~has_parent(path) THEN Err("InvalidPath")
        ELSE IF ~cparent.ok THEN Err("InvalidPath")
        ELSE IF ~has_file_name(path) THEN Err("InvalidPath")
        ELSE Ok(join(cparent.path, file_name(path)))

\* lines 45-48: the canonical base, or the base as given when it does not exist
canonical_base(f) ==
    LET base_path == get_pbs_admin_base_path.path
        c == canonicalize(f, base_path)
    IN  IF c.ok THEN c.path ELSE base_path

\* lines 50-52
temp_pbs == join(tempDir, "PBS_Admin")

\* line 55
within_allowed(f, canonical_path) ==
    \/ starts_with(canonical_path, canonical_base(f))
    \/ starts_with(canonical_path, temp_pbs)

\* a variant that tests the path as the caller wrote it and returns the
\* canonical one
validate_testing_written_path(f, path) ==
    LET c == candidate_path(f, path)
    IN  IF ~c.ok THEN c
        ELSE IF ~get_pbs_admin_base_path.ok THEN get_pbs_admin_base_path
        ELSE IF within_allowed(f, path) THEN Ok(c.path)
        ELSE Err("AccessDenied")

validate_path_within_pbs_admin(f, path) ==
    LET c == candidate_path(f, path)
    IN  IF ~c.ok THEN c
        ELSE IF ~get_pbs_admin_base_path.ok THEN get_pbs_admin_base_path
        ELSE IF within_allowed(f, c.path) THEN Ok(c.path)
        ELSE Err("AccessDenied")

validate_read_path(f, path) ==
    IF ~exists(f, path) THEN Err("NotFound")
    ELSE validate_path_within_pbs_admin(f, path)

validate_write_path(f, path) == validate_path_within_pbs_admin(f, path)

(***************************************************************************)
(* Filesystem primitives the commands use.                                 *)
(***************************************************************************)
NoEntry == [kind |-> "none", data |-> 0, whole |-> TRUE, target |-> <<>>]
entry_at(f, p) == IF p \in DOMAIN f THEN f[p] ELSE NoEntry

\* where File::create(p) opens (create, truncate, symlinks followed): the file
\* p resolves to, or a new file in the directory its parent resolves to; a
\* symlink whose target does not exist yet is followed to that target
RECURSIVE create_target(_, _, _)
create_target(f, p, fuel) ==
    LET c == canonicalize(f, p)
        cp == canonicalize(f, parent(p))
        q == join(cp.path, file_name(p))
    IN  IF c.ok
        THEN IF f[c.path].kind = "file" THEN c ELSE Err("IsADirectory")
        ELSE IF ~has_parent(p) \/ ~has_file_name(p) \/ ~cp.ok THEN Err("NotFound")
        ELSE IF f[cp.path].kind # "dir" THEN Err("NotADirectory")
        ELSE IF q \notin DOMAIN f THEN Ok(q)
        ELSE IF fuel = 0 THEN Err("TooManyLinks")
        ELSE create_target(f, f[q].target, fuel - 1)

\* fs::create_dir_all(p): the filesystem afterwards, or f unchanged on failure
RECURSIVE create_dir_all(_, _)
create_dir_all(f, p) ==
    IF exists(f, p) \/ ~has_parent(p) \/ ~has_file_name(p) THEN f
    ELSE LET g == create_dir_all(f, parent(p))
             cp == canonicalize(g, parent(p))
             q == join(cp.path, file_name(p))
         IN  IF cp.ok /\ g[cp.path].kind = "dir" /\ q \notin DOMAIN g
             THEN Put(g, q, Dir)
             ELSE g

\* the directories create_dir_all(p) made
dirs_made(f, p, arg) == {[act |-> "mkdir", at |-> q, arg |-> arg] : q \in (DOMAIN create_dir_all(f, p)) \ DOMAIN f}

(***************************************************************************)
(* The record of the last command.  `gate` is what the path validation     *)
(* returned to the command (NotCalled when the command does not call it);  *)
(* `res` is what the command returned; `steps` and `pre` are filled by the *)
(* backup commands, `out` is the list a listing returned, `safety` what    *)
(* the safety copy of a restore held once it was made.                     *)
(***************************************************************************)
NotCalled == Err("NotCalled")

Done(op, path, intent, gate, res) ==
    [op |-> op, path |-> path, intent |-> intent, gate |-> gate, res |-> res,
     steps |-> <<>>, pre |-> NoEntry, art |-> NoEntry, out |-> <<>>, safety |-> NoEntry]

Idle == Done("none", <<>>, "none", NotCalled, NotCalled)

CallerData == File(0)

(***************************************************************************)
(* File commands (lib.rs 120-303).                                         *)
(***************************************************************************)
\* a command runs to completion and returns before the caller issues the next
Ready == last.op = "none"
UnchangedEnv == UNCHANGED <<docDir, tempDir, clock, made>>

\* the caller takes the result
Return ==
    /\ ~Ready
    /\ last' = Idle
    /\ io' = {}
    /\ UNCHANGED <<fs, docDir, tempDir, clock, made>>

\* lines 173-182
read_text_file(file_path) ==
    LET v == validate_read_path(fs, file_path)
    IN  /\ Ready
        /\ fs' = fs
        /\ IF ~v.ok
           THEN /\ io' = {}
                /\ last' = Done("read_text_file", file_path, "read", v, v)
           ELSE IF fs[v.path].kind = "file"
           THEN /\ io' = {[act |-> "read", at |-> v.path, arg |-> TRUE]}
                /\ last' = Done("read_text_file", file_path, "read", v, Ok(v.path))
           ELSE /\ io' = {}
                /\ last' = Done("read_text_file", file_path, "read", v, Err("IOError"))
        /\ UnchangedEnv

\* the shared body of write_text_file, write_binary_file and download_file
\* after the download: validate, parent check, File::create, write_all (the
\* write of the caller's bytes to the opened file is taken to complete)
write_validated(op, file_path, fetched) ==
    LET v == validate_write_path(fs, file_path)
        t == create_target(fs, v.path, MaxLinkHops)
    IN  /\ Ready
        /\ IF ~v.ok
           THEN /\ fs' = fs /\ io' = {}
                /\ last' = Done(op, file_path, "write", v, v)
           ELSE IF has_parent(v.path) /\ ~exists(fs, parent(v.path))
           THEN /\ fs' = fs /\ io' = {}
                /\ last' = Done(op, file_path, "write", v, Err("InvalidPath"))
           ELSE IF ~fetched
           THEN /\ fs' = fs /\ io' = {}
                /\ last' = Done(op, file_path, "write", v, Err("DownloadFailed"))
           ELSE IF ~t.ok
           THEN /\ fs' = fs /\ io' = {}
                /\ last' = Done(op, file_path, "write", v, Err("IOError"))
           ELSE /\ fs' = Put(fs, t.path, CallerData)
                /\ io' = {[act |-> "write", at |-> t.path, arg |-> TRUE]}
                /\ last' = Done(op, file_path, "write", v, Ok(file_path))
        /\ UnchangedEnv

\* lines 184-205
write_text_file(file_path) == write_validated("write_text_file", file_path, TRUE)

\* lines 207-228
write_binary_file(file_path) == write_validated("write_binary_file", file_path, TRUE)

\* lines 230-264
download_file(file_path, fetched) == write_validated("download_file", file_path, fetched)

\* lines 266-303
list_files(directory) ==
    LET v == validate_read_path(fs, directory)
    IN  /\ Ready
        /\ fs' = fs
        /\ IF ~v.ok
           THEN /\ io' = {}
                /\ last' = Done("list_files", directory, "read", v, v)
           ELSE IF fs[v.path].kind # "dir"
           THEN /\ io' = {}
                /\ last' = Done("list_files", directory, "read", v, Err("NotADirectory"))
           ELSE /\ io' = {[act |-> "list", at |-> v.path, arg |-> TRUE]}
                /\ last' = Done("list_files", directory, "read", v, Ok(v.path))
        /\ UnchangedEnv

\* lines 120-151: the command checks the parent itself, against the base only
create_folder(path) ==
    LET cp == canonicalize(fs, parent(path))
        after == create_dir_all(fs, path)
        res == IF exists(fs, path) THEN Err("AlreadyExists")
               ELSE IF has_parent(path) /\ ~get_pbs_admin_base_path.ok
               THEN get_pbs_admin_base_path
               ELSE IF has_parent(path) /\ ~cp.ok THEN Err("InvalidPath")
               ELSE IF has_parent(path) /\ ~starts_with(cp.path, canonical_base(fs))
               THEN Err("AccessDenied")
               ELSE IF after = fs THEN Err("IOError")
               ELSE Ok(path)
    IN  /\ Ready
        /\ fs' = IF res.ok THEN after ELSE fs
        /\ io' = IF res.ok THEN dirs_made(fs, path, TRUE) ELSE {}
        /\ last' = Done("create_folder", path, "write", NotCalled, res)
        /\ UnchangedEnv

\* lines 86-100: creates <documents>/PBS_Admin/data when it is missing
get_database_path ==
    LET data_dir == join(join(docDir, "PBS_Admin"), "data")
        after == create_dir_all(fs, data_dir)
        res == IF docDir = <<>> THEN Err("NoDocumentsFolder")
               ELSE IF ~exists(fs, data_dir) /\ ~is_dir(after, data_dir) THEN Err("IOError")
               ELSE Ok(join(data_dir, "pbs_admin.db"))
    IN  /\ Ready
        /\ fs' = IF res.ok THEN after ELSE fs
        /\ io' = IF res.ok THEN dirs_made(fs, data_dir, FALSE) ELSE {}
        /\ last' = Done("get_database_path", <<>>, "none", NotCalled, res)
        /\ UnchangedEnv

(***************************************************************************)
(* File names.  A name is an atom of the model, so what the code reads off *)
(* a name (its extension, its stem, its prefix) is given name by name.     *)
(***************************************************************************)
DbName == "pbs_admin.db"
SafetyExtension == "db.pre-restore-backup"
BackupPrefix == "pbs-admin-backup-"

\* line 757: the clock reading in a fixed-width, zero-padded format
timestamp(t) == ToString(t \div 10) \o ToString(t % 10)

\* line 758: one name per second
BackupName(t) == BackupPrefix \o timestamp(t) \o ".db"
BackupNames == {BackupName(t) : t \in 1..MaxClock}

\* Path::extension
extension(p) ==
    IF ~has_file_name(p) THEN "none"
    ELSE IF file_name(p) \in BackupNames \cup {DbName, "evil.db", "missing.db", "archive.db",
                                               "export.db"}
         THEN "db"
    ELSE IF file_name(p) = "pbs_admin." \o SafetyExtension THEN "pre-restore-backup"
    ELSE IF file_name(p) = "pbs-admin-backup-notes.txt" THEN "txt"
    ELSE "none"

\* Path::file_stem
file_stem(name) == IF name = DbName THEN "pbs_admin" ELSE name

\* Path::with_extension
with_extension(p, ext) == join(parent(p), file_stem(file_name(p)) \o "." \o ext)

\* str::starts_with on names: a name starts with itself and with the
\* proper prefixes listed
name_starts_with(name, prefix) ==
    \/ name = prefix
    \/ prefix = BackupPrefix /\ name \in BackupNames \cup {"pbs-admin-backup-notes.txt"}
    \/ prefix = "Backups" /\ name = "Backups2"
    \/ prefix = "PBS_Admin" /\ name = "PBS_Admin2"

\* str::starts_with on paths written as strings: /a/b2/c starts with /a/b
string_starts_with(p, base) ==
    /\ base # <<>>
    /\ Len(base) <= Len(p)
    /\ SubSeq(p, 1, Len(base) - 1) = SubSeq(base, 1, Len(base) - 1)
    /\ name_starts_with(p[Len(base)], base[Len(base)])

(***************************************************************************)
(* fs::copy and fs::remove_file.  A copy either completes, or is refused   *)
(* before the destination is touched, or fails part way and leaves the     *)
(* destination torn; which one is the environment's choice (`outcome`).    *)
(* The destination is opened with create and truncate, so a copy of a file *)
(* onto itself leaves it truncated.                                        *)
(***************************************************************************)
CopyOutcomes == {"done", "refused", "torn"}

copy_starts(f, from, to) == is_file(f, from) /\ create_target(f, to, MaxLinkHops).ok
copy_ok(f, from, to, outcome) == copy_starts(f, from, to) /\ outcome = "done"

fs_copy(f, from, to, outcome) ==
    LET src == canonicalize(f, from).path
        dst == create_target(f, to, MaxLinkHops).path
    IN  IF ~copy_starts(f, from, to) \/ outcome = "refused" THEN f
        ELSE IF outcome = "torn" \/ src = dst THEN Put(f, dst, Torn)
        ELSE Put(f, dst, f[src])

\* the I/O of a copy that was not refused
copy_io(f, from, to, outcome, from_arg) ==
    IF ~copy_starts(f, from, to) \/ outcome = "refused" THEN {}
    ELSE {[act |-> "read", at |-> canonicalize(f, from).path, arg |-> from_arg],
          [act |-> "write", at |-> create_target(f, to, MaxLinkHops).path, arg |-> FALSE]}

\* unlink: the entry itself goes, a final symlink is not followed
remove_target(f, p) ==
    LET cp == canonicalize(f, parent(p))
        q == join(cp.path, file_name(p))
    IN  IF has_parent(p) /\ has_file_name(p) /\ cp.ok /\ q \in DOMAIN f /\ f[q].kind # "dir"
        THEN Ok(q)
        ELSE Err("IOError")

remove_ok(f, p, unlinked) == remove_target(f, p).ok /\ unlinked
fs_remove_file(f, p, unlinked) ==
    IF remove_ok(f, p, unlinked) THEN Remove(f, remove_target(f, p).path) ELSE f

(***************************************************************************)
(* Database backup and restore (lib.rs 103-114, 733-879).                  *)
(***************************************************************************)
db_path == join(join(join(docDir, "PBS_Admin"), "data"), DbName)
backups_path == join(join(docDir, "PBS_Admin"), "Backups")

\* lines 103-114
get_database_path_internal(f) ==
    IF docDir = <<>> THEN Err("NoDocumentsFolder")
    ELSE IF ~exists(f, db_path) THEN Err("SourceMissing")
    ELSE Ok(db_path)

\* lines 735-747, as the other commands call it: the filesystem afterwards
\* and the result
backups_made(f) ==
    IF docDir = <<>> \/ exists(f, backups_path) THEN f ELSE create_dir_all(f, backups_path)

backups_result(f) ==
    IF docDir = <<>> THEN Err("NoDocumentsFolder")
    ELSE IF ~exists(backups_made(f), backups_path) THEN Err("IOError")
    ELSE Ok(backups_path)

\* lines 735-747, as a command
get_backups_path ==
    /\ Ready
    /\ fs' = backups_made(fs)
    /\ io' = {[act |-> "mkdir", at |-> q, arg |-> FALSE] : q \in (DOMAIN backups_made(fs)) \ DOMAIN fs}
    /\ last' = Done("get_backups_path", <<>>, "none", NotCalled, backups_result(fs))
    /\ UnchangedEnv

\* the creates on record for an artifact path
MadeAt(p) == {m \in made : m[1] = p}

\* lines 752-771
create_database_backup(outcome) ==
    LET db == get_database_path_internal(fs)
        f0 == backups_made(fs)
        dir == backups_result(fs)
        backup_path == join(dir.path, BackupName(clock))
        ok == copy_ok(f0, db.path, backup_path, outcome)
        res == IF ~db.ok THEN db
               ELSE IF ~dir.ok THEN dir
               ELSE IF ~ok THEN Err("IOError")
               ELSE Ok(backup_path)
    IN  /\ Ready
        /\ fs' = IF ~db.ok THEN fs
                 ELSE IF ~dir.ok THEN f0
                 ELSE fs_copy(f0, db.path, backup_path, outcome)
        /\ io' = IF ~db.ok \/ ~dir.ok THEN {}
                 ELSE copy_io(f0, db.path, backup_path, outcome, FALSE)
        /\ last' = [Done("create_database_backup", <<>>, "none", NotCalled, res)
                       EXCEPT !.pre = IF db.ok THEN fs[canonicalize(fs, db.path).path] ELSE NoEntry]
        /\ made' = IF res.ok /\ MadeAt(canonicalize(fs', backup_path).path) = {}
                   THEN made \cup {<<canonicalize(fs', backup_path).path,
                                     fs[canonicalize(fs, db.path).path]>>}
                   ELSE made
        /\ UNCHANGED <<docDir, tempDir, clock>>

\* a variant that goes on to the overwrite whatever the safety copy did
restore_branch_unchecked(ok1, ok2) == IF ok2 THEN "restored" ELSE "rolled_back"

\* lines 792-808: the `?` after the safety copy and the match on the overwrite
restore_branch(ok1, ok2) ==
    IF ~ok1 THEN "abort" ELSE IF ok2 THEN "restored" ELSE "rolled_back"

\* a variant that reports the safety copy without making it
safety_copy_skipped(f, db, safety_backup, outcome) == f

\* line 792: the filesystem after the safety copy
safety_copy(f, db, safety_backup, outcome) == fs_copy(f, db, safety_backup, outcome)

\* a variant with the two arguments of the rollback copy swapped
rollback_swapped(f, safety_backup, db, outcome) == fs_copy(f, db, safety_backup, outcome)

\* line 805: the filesystem after the rollback copy
rollback(f, safety_backup, db, outcome) == fs_copy(f, safety_backup, db, outcome)

\* lines 775-809.  o1, o2, o3 are the outcomes of the safety copy, of the
\* overwrite and of the rollback copy; unlinked is that of remove_file
restore_database_backup(backup_path, o1, o2, o3, unlinked) ==
    LET db == get_database_path_internal(fs)
        safety_backup == with_extension(db.path, SafetyExtension)
        check == IF ~exists(fs, backup_path) THEN Err("InvalidBackup")
                 ELSE IF extension(backup_path) # "db" THEN Err("InvalidBackup")
                 ELSE db
        ok1 == copy_ok(fs, db.path, safety_backup, o1)
        f1 == safety_copy(fs, db.path, safety_backup, o1)
        ok2 == copy_ok(f1, backup_path, db.path, o2)
        f2 == fs_copy(f1, backup_path, db.path, o2)
        ok3 == copy_ok(f2, safety_backup, db.path, o3)
        gone == remove_ok(f2, safety_backup, unlinked)
        branch == restore_branch(ok1, ok2)
        pre == IF db.ok THEN fs[canonicalize(fs, db.path).path] ELSE NoEntry
        art == IF exists(fs, backup_path) THEN fs[canonicalize(fs, backup_path).path] ELSE NoEntry
        io1 == copy_io(fs, db.path, safety_backup, o1, FALSE)
        io2 == copy_io(f1, backup_path, db.path, o2, TRUE)
        report(res, steps) ==
            [Done("restore_database_backup", backup_path, "none", NotCalled, res)
                EXCEPT !.steps = steps, !.pre = pre, !.art = art,
                       !.safety = IF steps = <<>> THEN NoEntry ELSE entry_at(f1, safety_backup)]
    IN  /\ Ready
        /\ IF ~check.ok
           THEN /\ fs' = fs /\ io' = {}
                /\ last' = report(check, <<>>)
           ELSE IF branch = "abort"
           THEN /\ fs' = f1
                /\ io' = io1
                /\ last' = report(Err("BackupFailed"), <<<<"safety_copy", ok1>>>>)
           ELSE IF branch = "restored"
           THEN /\ fs' = fs_remove_file(f2, safety_backup, unlinked)
                /\ io' = io1 \cup io2
                           \cup {[act |-> "delete", at |-> remove_target(f2, safety_backup).path,
                                  arg |-> FALSE] : x \in {u \in {unlinked} : gone}}
                /\ last' = report(Ok(backup_path),
                                  <<<<"safety_copy", ok1>>, <<"overwrite", ok2>>,
                                    <<"remove_safety", gone>>>>)
           ELSE /\ fs' = rollback(f2, safety_backup, db.path, o3)
                /\ io' = io1 \cup io2 \cup copy_io(f2, safety_backup, db.path, o3, FALSE)
                /\ last' = report(Err("RestoreFailed"),
                                  <<<<"safety_copy", ok1>>, <<"overwrite", ok2>>,
                                    <<"rollback", ok3>>>>)
        /\ UnchangedEnv

\* lines 859-879
delete_backup_file(backup_path, unlinked) ==
    LET f0 == backups_made(fs)
        dir == backups_result(fs)
        res == IF ~dir.ok THEN dir
               ELSE IF ~string_starts_with(backup_path, dir.path) THEN Err("AccessDenied")
               ELSE IF has_file_name(backup_path)
                       /\ ~name_starts_with(file_name(backup_path), BackupPrefix)
               THEN Err("AccessDenied")
               ELSE IF ~remove_ok(f0, backup_path, unlinked) THEN Err("IOError")
               ELSE Ok(backup_path)
    IN  /\ Ready
        /\ fs' = IF res.ok THEN fs_remove_file(f0, backup_path, unlinked) ELSE f0
        /\ io' = {[act |-> "mkdir", at |-> q, arg |-> FALSE] : q \in (DOMAIN f0) \ DOMAIN fs}
                   \cup {[act |-> "delete", at |-> remove_target(f0, backup_path).path,
                          arg |-> TRUE] : x \in {r \in {res} : r.ok}}
        /\ last' = Done("delete_backup_file", backup_path, "none", NotCalled, res)
        /\ made' = IF res.ok THEN made \ MadeAt(remove_target(f0, backup_path).path) ELSE made
        /\ UNCHANGED <<docDir, tempDir, clock>>

\* str::cmp on two names that start with BackupPrefix and end in .db: the
\* bytes between decide, here the digits of the timestamp, first to last
stamp_digits(name) ==
    LET t == CHOOSE t \in 1..MaxClock : BackupName(t) = name IN <<t \div 10, t % 10>>

RECURSIVE digits_less(_, _)
digits_less(a, b) ==
    IF a = <<>> \/ b = <<>> THEN a = <<>> /\ b # <<>>
    ELSE IF Head(a) # Head(b) THEN Head(a) < Head(b)
    ELSE digits_less(Tail(a), Tail(b))

name_less(a, b) == digits_less(stamp_digits(a), stamp_digits(b))

\* a variant that sorts oldest first
sort_ascending(S, n) ==
    LET f == CHOOSE f \in [1..n -> S] :
                 /\ \A x \in S : \E i \in 1..n : f[i] = x
                 /\ \A i \in 1..n : \A j \in 1..n : i < j => name_less(f[i], f[j])
    IN  f

\* lines 846-851: sort_by(|a, b| name_b.cmp(name_a)), n the number of names
sort_descending(S, n) ==
    LET f == CHOOSE f \in [1..n -> S] :
                 /\ \A x \in S : \E i \in 1..n : f[i] = x
                 /\ \A i \in 1..n : \A j \in 1..n : i < j => name_less(f[j], f[i])
    IN  f

\* lines 819-824: the entries of the directory that the loop keeps
backup_entries(f, dir) ==
    {q \in DOMAIN f : /\ q # <<>> /\ parent(q) = canonicalize(f, dir).path
                      /\ extension(q) = "db"
                      /\ name_starts_with(file_name(q), BackupPrefix)}

\* lines 813-855.  opened: read_dir succeeds on a directory; unreadable: the
\* entries whose read fails and that entries.flatten() drops
list_database_backups(opened, unreadable) ==
    LET f0 == backups_made(fs)
        dir == backups_result(fs)
        read == opened /\ is_dir(f0, dir.path)
        kept == IF read
                THEN {file_name(q) : q \in backup_entries(f0, dir.path)} \ unreadable
                ELSE {}
        all_read == {file_name(q) : q \in backup_entries(f0, dir.path)} \cap unreadable = {}
        res == IF ~dir.ok THEN dir ELSE Ok(dir.path)
    IN  /\ Ready
        /\ fs' = f0
        /\ io' = {[act |-> "mkdir", at |-> q, arg |-> FALSE] : q \in (DOMAIN f0) \ DOMAIN fs}
        /\ last' = [Done("list_database_backups", <<>>, "none", NotCalled, res)
                       EXCEPT !.out = IF dir.ok THEN sort_descending(kept, Cardinality(kept))
                                      ELSE <<>>,
                              !.steps = IF ~dir.ok THEN <<>>
                                        ELSE IF ~read THEN <<<<"read_dir", FALSE>>>>
                                        ELSE <<<<"read_dir", TRUE>>, <<"entries", all_read>>>>]
        /\ UnchangedEnv

(***************************************************************************)
(* The environment of the backup commands: the database engine rewrites    *)
(* the database file it has open between commands, and time passes.        *)
(***************************************************************************)
DbEngineWrite(c) ==
    /\ Ready
    /\ docDir # <<>>
    /\ is_file(fs, db_path)
    /\ fs' = Put(fs, create_target(fs, db_path, MaxLinkHops).path, File(c))
    /\ UNCHANGED <<docDir, tempDir, clock, last, io, made>>

Tick ==
    /\ Ready
    /\ clock < MaxClock
    /\ clock' = clock + 1
    /\ UNCHANGED <<fs, docDir, tempDir, last, io, made>>

(***************************************************************************)
(* The machine the commands run on.  /docs is the user's Documents folder  *)
(* and /vdocs a symlink to it; /tmp is the temp folder and /vtmp a symlink *)
(* to it; /out is a directory outside every permitted root.  Inside the    *)
(* base, lnk is a symlink to /out and dang a symlink to /out/n, which does *)
(* not exist.  PBS_Admin2 is a sibling of the base.                        *)
(***************************************************************************)
Base == <<"docs", "PBS_Admin">>
DataDir == join(Base, "data")
DbFile == join(DataDir, "pbs_admin.db")
SafetyFile == join(DataDir, "pbs_admin.db.pre-restore-backup")
BackupsDir == join(Base, "Backups")
TempPbs == <<"tmp", "PBS_Admin">>

MkFs(S) == [p \in {s[1] : s \in S} |-> (CHOOSE s \in S : s[1] = p)[2]]

Machine ==
    { <<<<>>, Dir>>,
      <<<<"docs">>, Dir>>,
      <<<<"vdocs">>, Link(<<"docs">>)>>,
      <<<<"docs", "PBS_Admin2">>, Dir>>,
      <<<<"docs", "PBS_Admin2", "f">>, File(1)>>,
      <<<<"tmp">>, Dir>>,
      <<<<"vtmp">>, Link(<<"tmp">>)>>,
      <<TempPbs, Dir>>,
      <<join(TempPbs, "f"), File(1)>>,
      <<<<"out">>, Dir>>,
      <<<<"out", "secret">>, File(1)>>,
      <<<<"out", "evil.db">>, File(NumContents)>> }

Installed ==
    { <<Base, Dir>>,
      <<join(Base, "f"), File(1)>>,
      <<join(Base, "lnk"), Link(<<"out">>)>>,
      <<join(Base, "dang"), Link(<<"out", "n">>)>>,
      <<DataDir, Dir>>,
      <<DbFile, File(1)>>,
      <<BackupsDir, Dir>> }

FreshFs == MkFs(Machine)
InstalledFs == MkFs(Machine \cup Installed)

\* the environments: the Documents and temp folders as the OS reports them
Environments ==
    {<<d, t, InstalledFs>> : d \in {<<"docs">>, <<"vdocs">>}, t \in {<<"tmp">>, <<"vtmp">>}}
    \cup {<<<<>>, <<"tmp">>, InstalledFs>>, <<<<"docs">>, <<"tmp">>, FreshFs>>}

(***************************************************************************)
(* Caller-supplied paths: a prefix, up to MaxDots ".." and a suffix.       *)
(***************************************************************************)
Prefixes ==
    { <<>>, <<"docs", "PBS_Admin">>, <<"vdocs", "PBS_Admin">>, <<"tmp", "PBS_Admin">>,
      <<"vtmp", "PBS_Admin">>, <<"docs", "PBS_Admin", "lnk">>, <<"docs", "PBS_Admin2">> }

Suffixes ==
    { <<>>, <<"f">>, <<"n">>, <<"dang">>, <<"out", "secret">>, <<"no", "n">>,
      <<"docs", "PBS_Admin", "f">> }

Dots(k) == [i \in 1..k |-> ".."]

CallerPaths == {p \o Dots(k) \o s : p \in Prefixes, k \in 0..MaxDots, s \in Suffixes}

(***************************************************************************)
(* The file commands on their own.                                         *)
(***************************************************************************)
Init ==
    /\ \E e \in Environments : docDir = e[1] /\ tempDir = e[2] /\ fs = e[3]
    /\ clock = 1
    /\ last = Idle
    /\ io = {}
    /\ made = {}

Next ==
    \/ \E p \in CallerPaths : read_text_file(p)
    \/ \E p \in CallerPaths : write_text_file(p)
    \/ \E p \in CallerPaths : write_binary_file(p)
    \/ \E p \in CallerPaths, g \in BOOLEAN : download_file(p, g)
    \/ \E p \in CallerPaths : list_files(p)
    \/ \E p \in CallerPaths : create_folder(p)
    \/ Return

Spec == Init /\ [][Next]_vars

(***************************************************************************)
(* The backup commands with their environment.  The caller passes the      *)
(* paths it was given (artifacts, listed or not yet made), the database    *)
(* file, the safety copy, and a .db file outside the application folders.  *)
(***************************************************************************)
BackupArgs ==
    {join(backups_path, n) : n \in BackupNames \cup {"missing.db"}}
    \cup {db_path, with_extension(db_path, SafetyExtension), <<"out", "evil.db">>}

\* what the environment does to the steps of one restore: the outcomes of the
\* three copies and of the removal, those of steps not reached left fixed
RestoreFaults ==
    {<<o1, "done", "done", TRUE>> : o1 \in CopyOutcomes \ {"done"}}
    \cup {<<"done", "done", "done", u>> : u \in BOOLEAN}
    \cup {<<"done", o2, o3, TRUE>> : o2 \in CopyOutcomes \ {"done"}, o3 \in CopyOutcomes}

\* the faults of a restore among the other backup commands: none, a refused
\* safety copy, and an overwrite that fails part way with the rollback copy
\* completing or failing part way too
BackupFaults ==
    {<<"done", "done", "done", TRUE>>, <<"refused", "done", "done", TRUE>>,
     <<"done", "torn", "done", TRUE>>, <<"done", "torn", "torn", TRUE>>}

BackupEnvironments ==
    {<<<<"docs">>, <<"tmp">>, InstalledFs>>, <<<<"docs">>, <<"tmp">>, FreshFs>>,
     <<<<>>, <<"tmp">>, InstalledFs>>}

InitBackup ==
    /\ \E e \in BackupEnvironments : docDir = e[1] /\ tempDir = e[2] /\ fs = e[3]
    /\ clock = 1
    /\ last = Idle
    /\ io = {}
    /\ made = {}

NextBackup ==
    \/ get_database_path
    \/ get_backups_path
    \/ \E o \in CopyOutcomes : create_database_backup(o)
    \/ \E p \in BackupArgs, x \in BackupFaults :
          restore_database_backup(p, x[1], x[2], x[3], x[4])
    \/ \E p \in BackupArgs, u \in BOOLEAN : delete_backup_file(p, u)
    \/ \E c \in Contents : DbEngineWrite(c)
    \/ Tick
    \/ Return

SpecBackup == InitBackup /\ [][NextBackup]_vars

(***************************************************************************)
(* Restore on its own: an installation that holds an artifact from an      *)
(* earlier backup and a folder archive.db next to it, the database engine, *)
(* and restore under every fault.                                          *)
(***************************************************************************)
ArchiveDir == join(BackupsDir, "archive.db")

RestoreArgs == BackupArgs \cup {ArchiveDir}

InitRestore ==
    /\ docDir = <<"docs">>
    /\ tempDir = <<"tmp">>
    /\ \E d \in Contents, a \in Contents :
           fs = Put(Put(Put(InstalledFs, DbFile, File(d)),
                        join(BackupsDir, BackupName(1)), File(a)),
                    ArchiveDir, Dir)
    /\ clock = 1
    /\ last = Idle
    /\ io = {}
    /\ made = {}

NextRestore ==
    \/ \E p \in RestoreArgs, x \in RestoreFaults :
          restore_database_backup(p, x[1], x[2], x[3], x[4])
    \/ \E c \in Contents : DbEngineWrite(c)
    \/ Return

SpecRestore == InitRestore /\ [][NextRestore]_vars

\* the body of the command is straight-line code: once called it runs to its
\* return
SpecRestoreFair == SpecRestore /\ WF_vars(Return)

(***************************************************************************)
(* The artifacts on their own: create, list and delete in a Backups folder *)
(* that also holds files that are no artifacts, next to a sibling folder   *)
(* Backups2 with a file named like an artifact; and the same installation  *)
(* before the Backups folder was made.                                     *)
(***************************************************************************)
SiblingDir == join(Base, "Backups2")

Strays ==
    { <<join(BackupsDir, "export.db"), File(1)>>,
      <<join(BackupsDir, "pbs-admin-backup-notes.txt"), File(1)>> }

Sibling ==
    { <<SiblingDir, Dir>>,
      <<join(SiblingDir, BackupName(1)), File(1)>> }

ArtifactsFs == MkFs(Machine \cup Installed \cup Strays \cup Sibling)
NoBackupsFs == MkFs(Machine \cup (Installed \ {<<BackupsDir, Dir>>}) \cup Sibling)

DeleteArgs ==
    {join(backups_path, n) : n \in BackupNames \cup {"export.db", "pbs-admin-backup-notes.txt"}}
    \cup {join(SiblingDir, BackupName(1)),
          backups_path \o <<"..", "Backups2", BackupName(1)>>,
          join(backups_path, ".."),
          <<"out", "evil.db">>}

InitArtifacts ==
    /\ docDir = <<"docs">>
    /\ tempDir = <<"tmp">>
    /\ fs \in {ArtifactsFs, NoBackupsFs}
    /\ clock = 1
    /\ last = Idle
    /\ io = {}
    /\ made = {}

NextArtifacts ==
    \/ \E o \in CopyOutcomes : create_database_backup(o)
    \/ \E opened \in BOOLEAN, unreadable \in SUBSET BackupNames :
          list_database_backups(opened, unreadable)
    \/ \E p \in DeleteArgs, u \in BOOLEAN : delete_backup_file(p, u)
    \/ Tick
    \/ Return

SpecArtifacts == InitArtifacts /\ [][NextArtifacts]_vars

(***************************************************************************)
(* What the claims about the path validation speak of.                     *)
(***************************************************************************)
HasDocs == docDir # <<>>

\* the command called the path validation
Gated == last.gate # NotCalled

\* the Permitted Root Set in canonical form (a root that does not exist yet
\* is taken as given)
canonical_root(f, r) == IF canonicalize(f, r).ok THEN canonicalize(f, r).path ELSE r
PermittedRoots(f) == {canonical_root(f, join(docDir, "PBS_Admin")), canonical_root(f, temp_pbs)}
InsideRoots(f, q) == \E r \in PermittedRoots(f) : starts_with(q, r)
StrictlyInsideRoots(f, q) == \E r \in PermittedRoots(f) : starts_with(q, r) /\ q # r

\* q is in canonical form: no ".." and no symlink on the way
IsCanonical(f, q) ==
    \A i \in 1..Len(q) : q[i] # ".." /\ entry_at(f, SubSeq(q, 1, i)).kind # "link"

\* the canonical form of p: where the operating system gets to with p, for an
\* existing target and for one that is yet to be created in an existing parent
RECURSIVE canonical_form(_, _, _)
canonical_form(f, p, fuel) ==
    LET c == canonicalize(f, p)
        cp == canonicalize(f, parent(p))
        q == join(cp.path, file_name(p))
    IN  IF c.ok THEN c
        ELSE IF ~has_parent(p) \/ ~has_file_name(p) \/ ~cp.ok THEN Err("InvalidPath")
        ELSE IF q \notin DOMAIN f THEN Ok(q)
        ELSE IF fuel = 0 THEN Err("InvalidPath")
        ELSE canonical_form(f, f[q].target, fuel - 1)

CanonicalForm(p) == canonical_form(fs, p, MaxLinkHops)
HasDots(p) == \E i \in 1..Len(p) : p[i] = ".."

validate(f, p, intent) ==
    IF intent = "read" THEN validate_read_path(f, p) ELSE validate_write_path(f, p)

\* C1: a path the validation returns is canonical and inside a permitted
\* root, every input whose canonical form is not inside one is refused, and
\* the command then does no I/O; so all I/O is inside the permitted roots.
C1_ValidatedInsideRoots ==
    (HasDocs /\ Gated) =>
        /\ last.gate.ok => IsCanonical(fs, last.gate.path) /\ InsideRoots(fs, last.gate.path)
        /\ (CanonicalForm(last.path).ok /\ ~InsideRoots(fs, CanonicalForm(last.path).path))
               => ~last.gate.ok /\ io = {}
        /\ \A x \in io : InsideRoots(fs, x.at)

\* C2: a path with ".." whose canonical form is outside every permitted root
\* is refused with AccessDenied, for read and for write, target existing or
\* not, also when the path as written starts with a permitted root (the case
\* stated here).
C2_TraversalDenied ==
    (HasDocs /\ Gated /\ HasDots(last.path) /\ InsideRoots(fs, last.path)
        /\ CanonicalForm(last.path).ok /\ ~InsideRoots(fs, CanonicalForm(last.path).path))
    => last.gate.err = "AccessDenied"

\* C3: a path whose canonical form is strictly inside a permitted root (the
\* base or the temp root, in canonical form) is accepted: for read when the
\* target exists, for write when the parent exists.
C3_InsideAccepted ==
    (HasDocs /\ Gated
        /\ CanonicalForm(last.path).ok /\ StrictlyInsideRoots(fs, CanonicalForm(last.path).path)
        /\ (last.intent = "read" => exists(fs, last.path))
        /\ (last.intent = "write" => has_parent(last.path) /\ exists(fs, parent(last.path))))
    => last.gate.ok

\* C4: validate is idempotent: on the filesystem a command is about to run
\* on, a path that validate returns validates to itself.
C4_Idempotent ==
    Ready =>
        \A p \in CallerPaths : \A intent \in {"read", "write"} :
            validate(fs, p, intent).ok =>
                validate(fs, validate(fs, p, intent).path, intent) = validate(fs, p, intent)

\* a command was given a path that is not canonical, the validation returned
\* another path, and that path validates to itself
C4_Witness ==
    /\ Gated /\ last.gate.ok /\ HasDots(last.path) /\ last.gate.path # last.path
    /\ fs[last.gate.path].kind = "file"
    /\ validate(fs, last.gate.path, last.intent) = last.gate

(***************************************************************************)
(* What the claims about backup and restore speak of.                      *)
(***************************************************************************)
Restored == last.op = "restore_database_backup"

\* the Database File and the Safety Copy as they are now
DbNow == entry_at(fs, DbFile)
SafetyNow == entry_at(fs, SafetyFile)

\* the steps the last restore took
Step(i) == IF i <= Len(last.steps) THEN last.steps[i] ELSE <<"none", FALSE>>
SafetyCopyFailed == Restored /\ Step(1) = <<"safety_copy", FALSE>>
OverwriteFailed == Restored /\ Step(1) = <<"safety_copy", TRUE>> /\ Step(2) = <<"overwrite", FALSE>>
RolledBack == OverwriteFailed /\ Step(3) = <<"rollback", TRUE>>
RollbackFailed == OverwriteFailed /\ Step(3) = <<"rollback", FALSE>>

\* C5: every command does its I/O at a caller-supplied path only where the
\* path validation accepts it: inside a permitted root.
C5_AllIoValidated ==
    HasDocs => \A x \in io : x.arg => InsideRoots(fs, x.at)

\* C6: after a restore of an artifact, whatever failed, the Database File
\* holds the pre-restore content or the artifact's content, unless the call
\* reported RestoreFailedUnrecoverable.
C6_DbNeverCorrupted ==
    (Restored /\ last.pre.kind = "file" /\ last.art # last.pre
        /\ canonicalize(fs, last.path).path # DbFile
        /\ last.res.err # "RestoreFailedUnrecoverable")
    => DbNow \in {last.pre, last.art}

\* C7: when the overwrite fails after the safety copy and the rollback copy
\* succeeds, the Database File is as it was before the restore and the call
\* reports RestoreFailed.
C7_RollbackRestoresDb ==
    RolledBack => DbNow = last.pre /\ last.res.err = "RestoreFailed"

\* an overwrite failed on a whole database that differed from the artifact,
\* and the rollback copy succeeded
C7_Witness ==
    /\ RolledBack
    /\ last.pre.whole /\ last.art.whole /\ last.art # last.pre
    /\ DbNow = last.pre

\* C8: when the overwrite and the rollback copy both fail, the call reports
\* RestoreFailedUnrecoverable and the Safety Copy is still on disk.
C8_UnrecoverableReported ==
    RollbackFailed =>
        /\ last.res.err = "RestoreFailedUnrecoverable"
        /\ SafetyNow.kind = "file"

\* C9: a successful restore of an artifact leaves the Database File with the
\* content it had when create made that artifact.
C9_RoundTrip ==
    (Restored /\ last.res.ok) =>
        \A m \in MadeAt(canonicalize(fs, last.path).path) : DbNow = m[2]

\* C10: when the safety copy fails, restore reports BackupFailed, does not
\* attempt the overwrite, and the Database File is unchanged.
C10_SafetyCopyFailureAborts ==
    SafetyCopyFailed =>
        /\ last.res.err = "BackupFailed"
        /\ Len(last.steps) = 1
        /\ DbNow = last.pre
        /\ \A x \in io : ~(x.act = "write" /\ x.at = DbFile)

\* a safety copy failed part way, for a restore of an artifact that differs
\* from the database
C10_Witness ==
    /\ SafetyCopyFailed
    /\ SafetyNow = Torn
    /\ last.art.kind = "file" /\ last.art # last.pre
    /\ DbNow = last.pre

\* C11: a restore of a path that is not an existing regular file with the
\* extension db is rejected with InvalidBackup, takes no step (no Safety Copy
\* is made), and leaves the Database File as it was.
C11_InvalidBackupRejected ==
    (Restored /\ (last.art.kind # "file" \/ extension(last.path) # "db"))
    => /\ last.res.err = "InvalidBackup"
       /\ last.steps = <<>> /\ io = {}
       /\ DbNow = last.pre

\* C12: a delete of a path that does not resolve to a place inside the
\* backups folder fails (with AccessDenied) and changes nothing on disk, no
\* file removed and no directory made, also when the path as a string begins
\* with the backups folder's path and names a file.  Stated here for that
\* case and for the removal: the call fails and removes no file.
Deleted == last.op = "delete_backup_file"

ResolvesInBackups(p) ==
    /\ CanonicalForm(p).ok
    /\ starts_with(CanonicalForm(p).path, canonical_root(fs, backups_path))
    /\ CanonicalForm(p).path # canonical_root(fs, backups_path)

C12_DeleteDenied ==
    (Deleted /\ HasDocs /\ ~ResolvesInBackups(last.path)
        /\ has_file_name(last.path) /\ string_starts_with(last.path, backups_path))
    => ~last.res.ok /\ \A x \in io : x.act # "delete"

\* C13: a listing that the directory and all its entries could be read for
\* returns exactly the entries of the backups folder named as artifacts
\* (prefix pbs-admin-backup- and extension db), newest first: of two returned
\* artifacts the one with the later timestamp comes earlier.
Listed == last.op = "list_database_backups"

FullyRead == last.steps = <<<<"read_dir", TRUE>>, <<"entries", TRUE>>>>

\* the second an artifact name was made in
time_of(name) == CHOOSE t \in 1..MaxClock : BackupName(t) = name

C13_ListNewestFirst ==
    (Listed /\ last.res.ok /\ FullyRead) =>
        /\ {last.out[i] : i \in 1..Len(last.out)}
              = {n \in BackupNames : join(BackupsDir, n) \in DOMAIN fs}
        /\ \A i \in 1..Len(last.out) : \A j \in 1..Len(last.out) :
              i < j => time_of(last.out[i]) > time_of(last.out[j])

\* a listing of two artifacts in a folder that also holds other files
C13_Witness ==
    /\ Listed /\ last.res.ok /\ FullyRead
    /\ Len(last.out) >= 2
    /\ join(BackupsDir, "export.db") \in DOMAIN fs
    /\ join(BackupsDir, "pbs-admin-backup-notes.txt") \in DOMAIN fs

\* C14: a listing whose directory could not be opened for reading fails
\* with an error; only unreadable entries leave a call that succeeds with a
\* shorter list.
C14_ListFailsUnopened ==
    (Listed /\ Step(1) = <<"read_dir", FALSE>>) => ~last.res.ok

\* C15: an artifact that create has made keeps the content it was made
\* with until it is deleted: no later create, restore or listing replaces
\* it by other content or removes it.  (Stated for replacement by a complete
\* file and for removal; a later create that fails part way is left aside.)
C15_ArtifactImmutable ==
    \A m \in made : entry_at(fs, m[1]).whole => entry_at(fs, m[1]) = m[2]

\* C16: a create that fails leaves no partial artifact visible: every entry
\* a listing returns after the failed call was a complete artifact, and
\* listed, before the call.
C16_NoPartialArtifact ==
    [][(Ready /\ last'.op = "create_database_backup" /\ ~last'.res.ok)
         => \A q \in backup_entries(fs', backups_path) :
                /\ q \in backup_entries(fs, backups_path)
                /\ fs[q].kind = "file" /\ fs[q].whole]_vars

\* C17: a restore takes only the steps safety copy, overwrite, and then the
\* removal of the Safety Copy (overwrite succeeded) or the rollback copy
\* (overwrite failed), each at most once; the Database File is written only
\* after a Safety Copy holding the pre-restore content was completed; and
\* every call returns.
StepsInOrder ==
    /\ Len(last.steps) \in {0, 1, 3}
    /\ Len(last.steps) = 1 => Step(1) = <<"safety_copy", FALSE>>
    /\ Len(last.steps) = 3 =>
          /\ Step(1) = <<"safety_copy", TRUE>>
          /\ Step(2)[1] = "overwrite"
          /\ Step(3)[1] = IF Step(2)[2] THEN "remove_safety" ELSE "rollback"

WritesDb == \E x \in io : x.act = "write" /\ x.at = DbFile

C17_RestoreTransitions ==
    /\ [](Restored =>
            /\ StepsInOrder
            /\ (WritesDb \/ Len(last.steps) = 3) =>
                   Step(1) = <<"safety_copy", TRUE>> /\ last.safety = last.pre)
    /\ (Restored ~> Ready)

\* a restore that went through the safety copy, the overwrite and the removal
\* of the Safety Copy, and replaced the database by a different artifact
C17_Witness ==
    /\ Restored /\ last.res.ok
    /\ Step(3) = <<"remove_safety", TRUE>>
    /\ WritesDb
    /\ last.safety = last.pre /\ last.pre.whole
    /\ last.art.whole /\ last.art # last.pre /\ DbNow = last.art

\* C18: the Safety Copy lasts for one restore only: a restore that returns
\* success has removed it (unless the removal itself failed, which is not
\* reported), and after a restore of a file that went on to the overwrite a
\* Safety Copy is still on disk only when the rollback copy failed.
RemovalFailed == Restored /\ last.res.ok /\ Step(3) = <<"remove_safety", FALSE>>

C18_SafetyCopyLifetime ==
    (Restored /\ last.art.kind = "file" /\ Len(last.steps) = 3) =>
        /\ (last.res.ok /\ ~RemovalFailed) => SafetyNow.kind = "none"
        /\ SafetyNow.kind # "none" => RollbackFailed \/ RemovalFailed

\* C19: a path that restore accepts is neither the Database File nor the
\* Safety Copy, and the file there holds after the call, whatever its
\* outcome, what it held before.
Accepted == Restored /\ last.art.kind = "file" /\ last.steps # <<>>

C19_ArtifactUntouched ==
    Accepted =>
        /\ canonicalize(fs, last.path).path \notin {DbFile, SafetyFile}
        /\ entry_at(fs, canonicalize(fs, last.path).path) = last.art

====
